---- MODULE Spec2Model ----
(***************************************************************************)
(* Session lifecycle of the mem-mcp-server (v2.1.0): the two session       *)
(* stores httpTransports and sseTransports, the routes /mcp, /sse and      *)
(* /messages, and the periodic cleanup of stale streaming sessions.        *)
(*                                                                         *)
(* JavaScript runs each route handler atomically between two awaits, so    *)
(* every action below is one such segment: from the arrival of a request   *)
(* (or the resumption after an await) up to the next await or return.      *)
(* Session ids come from randomUUID(): the model mints them from a counter *)
(* (an id is never minted twice) and a client can only send an id the      *)
(* server has revealed to some client, a forged id, or none.               *)
(***************************************************************************)
EXTENDS Integers, FiniteSets, Sequences, Bags, TLC

(* ---- bounds of the model ---- *)
(* the session ids randomUUID() returns *)
MaxSessions == 2
(* the requests that await a promise at the same time *)
MaxReqs == 2
(* the times the clock advances *)
MaxTicks == 1

(* ---- program constants ---- *)
SESSION_TTL_MS == 30 * 60 * 1000
CLEANUP_INTERVAL_MS == 5 * 60 * 1000

(* the value of an absent Mcp-Session-Id header / sessionId parameter *)
NoId == 0
(* ids a client makes up; randomUUID() never returns them *)
Forged == {-1}
(* no object: the value of a reference that was never assigned *)
NoObj == 0

(* the steps by which the clock can advance between two events *)
Deltas == {SESSION_TTL_MS, SESSION_TTL_MS + 1}

VARIABLES
  httpTransports,  \* streaming store: id -> [server, transport, lastAccess]
  sseTransports,   \* event-stream store: id -> [server, transport]
  reqs,            \* the requests on /mcp and /messages that await a promise (a bag)
  resp,            \* the request whose handler arrived at an await or ended in the last step
  conns,           \* the connections on /sse whose close event has not fired
  now,             \* Date.now()
  nextSweep,       \* the time at which the cleanup timer is due
  ticks,           \* how often the clock has advanced
  uuids,           \* how many ids randomUUID() has returned
  objs,            \* how many server/transport objects were constructed
  known,           \* the ids revealed to clients
  connected,       \* the streaming transports whose server.connect() has resolved
  deleted,         \* streaming ids removed by DELETE
  reaped,          \* streaming ids removed by the cleanup timer
  tool,            \* the tool invocation in progress and its upstream call
  handler          \* a tool handler's arguments, request body and rendered text

vars == <<httpTransports, sseTransports, reqs, resp, conns, now, nextSweep,
          ticks, uuids, objs, known, connected, deleted, reaped, tool, handler>>

(* ---- the session stores as partial maps ---- *)
Has(store, id) == id \in DOMAIN store

(* mutant: storing a session drops the others *)
PutAlone(store, id, entry) == [i \in {id} |-> entry]

Put(store, id, entry) ==
  [i \in (DOMAIN store) \cup {id} |-> IF i = id THEN entry ELSE store[i]]

Remove(store, id) == [i \in (DOMAIN store) \ {id} |-> store[i]]

(* mutant: a request does not refresh the session *)
TouchNothing(store, id, t) == store

Touch(store, id, t) == [store EXCEPT ![id].lastAccess = t]

(* ---- requests and connections ---- *)
IdleReq == [route |-> "none", method |-> "none", sid |-> NoId, init |-> FALSE,
            pc |-> "idle", sessionId |-> NoId, made |-> NoObj,
            transport |-> NoObj,
            status |-> 0, hdr |-> NoId, body |-> ""]

(* no request arrived or was answered in the last step *)
NoResp == IdleReq

(* the event loop is free for the next event *)
Ready == resp = NoResp

(* What the rest of a handler keeps of its request once it awaits: the     *)
(* route, the local sessionId, the objects it made and the header it set.  *)
(* What the client sent is not read again.                                 *)
Continuation(rec) ==
  [rec EXCEPT !.method = "none", !.sid = NoId, !.init = FALSE]

(* the requests that await a promise *)
Pending == BagToSet(reqs)

(* the handler of a request ends at once: rec is the request with its response *)
Answer(rec) ==
  /\ resp' = rec
  /\ UNCHANGED reqs

(* the handler of a request awaits a promise: rec is the request as the   *)
(* handler leaves it                                                       *)
Await(rec) ==
  /\ BagCardinality(reqs) < MaxReqs
  /\ reqs' = reqs (+) SetToBag({Continuation(rec)})
  /\ resp' = rec

(* the handler of the pending request q resumes and awaits the next promise *)
AwaitNext(q, rec) ==
  /\ reqs' = (reqs (-) SetToBag({q})) (+) SetToBag({rec})
  /\ resp' = NoResp

(* the handler of the pending request q resumes and ends *)
Finish(q, rec) ==
  /\ reqs' = reqs (-) SetToBag({q})
  /\ resp' = rec

(* what a client can put in the session header or query parameter *)
ClientIds == known \cup Forged \cup {NoId}

(* ---- the tools and the upstream client ---- *)

(* an absent string: no request body, no prefix, no status text *)
None == "none"

(* The upstream call of a tool handler. reads says whether the handler     *)
(* reads a field of the returned value, list whether it renders a list of  *)
(* results.                                                                *)
Call(version, name, api, method, hasBody, prefix, reads, list) ==
  [version |-> version, name |-> name, api |-> api, method |-> method,
   hasBody |-> hasBody, prefix |-> prefix, reads |-> reads, list |-> list]

(* the tools of v2.1.0, all on API v2 *)
Tools210 ==
  { Call("2.1.0", "mem_search", "v2", "POST", TRUE, "Error searching notes: ", TRUE, TRUE),
    Call("2.1.0", "mem_list", "v2", "GET", FALSE, "Error listing notes: ", TRUE, TRUE),
    Call("2.1.0", "mem_create", "v2", "POST", TRUE, "Error creating note: ", TRUE, FALSE),
    Call("2.1.0", "mem_read", "v2", "GET", FALSE, "Error reading note: ", TRUE, FALSE),
    Call("2.1.0", "mem_it", "v2", "POST", TRUE, "Error: ", TRUE, FALSE),
    Call("2.1.0", "mem_collections_list", "v2", "GET", FALSE,
         "Error listing collections: ", TRUE, TRUE),
    Call("2.1.0", "mem_collections_search", "v2", "POST", TRUE,
         "Error searching collections: ", TRUE, TRUE) }

(* the tools of v1.0.0: three on API v0, mem_search on API v2 *)
Tools100 ==
  { Call("1.0.0", "mem_search", "v2", "POST", TRUE, "Error: ", TRUE, FALSE),
    Call("1.0.0", "mem_create", "v0", "POST", TRUE, "Error creating note: ", TRUE, FALSE),
    Call("1.0.0", "mem_read", "v0", "GET", FALSE, "Error reading note: ", TRUE, FALSE),
    Call("1.0.0", "mem_append", "v0", "POST", TRUE, "Error appending to note: ",
         FALSE, FALSE) }

Calls == Tools210 \cup Tools100

(* mutant: the content type is set together with the body *)
OptionsV2WithBody(method, hasBody) ==
  [method |-> method, authorization |-> "Bearer",
   contentType |-> IF hasBody THEN "application/json" ELSE None,
   body |-> IF hasBody THEN "json" ELSE None]

(* the options of fetch: the method, the two headers and the body *)
OptionsV2(method, hasBody) ==
  [method |-> method, authorization |-> "Bearer",
   contentType |-> "application/json",
   body |-> IF hasBody THEN "json" ELSE None]

OptionsV0(method, hasBody) ==
  [method |-> method, authorization |-> "ApiAccessToken",
   contentType |-> "application/json",
   body |-> IF hasBody THEN "json" ELSE None]

Options(api, method, hasBody) ==
  IF api = "v0" THEN OptionsV0(method, hasBody) ELSE OptionsV2(method, hasBody)

(* the characters of a malformed body that the format error quotes *)
FormatErrorChars == 200

(* A body text: its kind (empty, JSON or not JSON), its length and, for    *)
(* JSON, the value it denotes. A JSON value is null or an object with or   *)
(* without results (-1: no such field) and with or without next_page.      *)
Text(kind, len, value) == [kind |-> kind, len |-> len, value |-> value]

(* no JSON value *)
NoValue == [type |-> "none", results |-> -1, next_page |-> FALSE]

(* no text *)
NoText == Text("none", 0, NoValue)

JsonNull == [type |-> "null", results |-> -1, next_page |-> FALSE]

JsonObject(results, next_page) ==
  [type |-> "object", results |-> results, next_page |-> next_page]

EmptyObject == JsonObject(-1, FALSE)

Texts ==
  {Text("empty", 0, NoValue)}
  \cup {Text("json", 4, JsonNull), Text("json", 2, EmptyObject)}
  \cup {Text("json", 40, JsonObject(n, p)) : n \in {0, 1}, p \in BOOLEAN}
  \cup {Text("garbage", n, NoValue) : n \in {1, FormatErrorChars, FormatErrorChars + 1}}

(* text.substring(0, n) *)
Substring(text, n) == [text EXCEPT !.len = IF text.len < n THEN text.len ELSE n]

(* the responses of the upstream service *)
Statuses == {200, 299, 300, 500}

(* the status text that comes with a status *)
StatusText(status) ==
  CASE status = 200 -> "OK"
    [] status = 299 -> "Miscellaneous"
    [] status = 300 -> "Multiple Choices"
    [] status = 500 -> "Internal Server Error"
    [] OTHER -> None

Response(status, text) ==
  [status |-> status, statusText |-> StatusText(status), text |-> text]

Responses == {Response(st, t) : st \in Statuses, t \in Texts}

(* fetch has not resolved *)
NoResponse == Response(0, NoText)

(* response.ok *)
Ok(response) == response.status >= 200 /\ response.status <= 299

(* what the upstream call returns or throws *)
Outcome(kind, status, statusText, text, value) ==
  [kind |-> kind, status |-> status, statusText |-> statusText, text |-> text,
   value |-> value]

(* fetch or the read of the body rejected *)
NetworkError == Outcome("network", 0, None, NoText, NoValue)

(* the call has not ended *)
NoOutcome == Outcome("none", 0, None, NoText, NoValue)

(* JSON.parse(text) of v2.1.0: the value, or the error that quotes the     *)
(* start of the text                                                       *)
Parse(text) ==
  IF text.kind = "json"
  THEN Outcome("value", 0, None, NoText, text.value)
  ELSE Outcome("format", 0, None, Substring(text, FormatErrorChars), NoValue)

(* mutant: an empty body is parsed like any other *)
CallMemAPIv2ParseAll(response) ==
  IF ~Ok(response)
  THEN Outcome("http", response.status, response.statusText, response.text, NoValue)
  ELSE Parse(response.text)

(* callMemAPIv2 of v2.1.0 once the body text is read *)
CallMemAPIv2(response) ==
  IF ~Ok(response)
  THEN Outcome("http", response.status, response.statusText, response.text, NoValue)
  ELSE IF response.text.kind = "empty"
  THEN Outcome("value", 0, None, NoText, EmptyObject)
  ELSE Parse(response.text)

(* callMemAPIv0 of v1.0.0 once the body is read: response.json() rejects   *)
(* for an empty body and for a body that is not JSON                       *)
CallMemAPIv0(response) ==
  IF ~Ok(response)
  THEN Outcome("http", response.status, response.statusText, response.text, NoValue)
  ELSE IF response.text.kind = "json"
  THEN Outcome("value", 0, None, NoText, response.text.value)
  ELSE Outcome("syntax", 0, None, NoText, NoValue)

(* callMemAPIv2 of v1.0.0 once the body is read: as callMemAPIv0 *)
CallMemAPIv2Old(response) ==
  IF ~Ok(response)
  THEN Outcome("http", response.status, response.statusText, response.text, NoValue)
  ELSE IF response.text.kind = "json"
  THEN Outcome("value", 0, None, NoText, response.text.value)
  ELSE Outcome("syntax", 0, None, NoText, NoValue)

CallOutcome(call, response) ==
  IF call.version = "2.1.0" THEN CallMemAPIv2(response)
  ELSE IF call.api = "v0" THEN CallMemAPIv0(response)
  ELSE CallMemAPIv2Old(response)

(* the result a tool handler returns *)
Result(isError, thrown, prefix, message, view, hint) ==
  [isError |-> isError, thrown |-> thrown, prefix |-> prefix, message |-> message,
   view |-> view, hint |-> hint]

(* mutant: a handler without a catch block *)
CaughtNowhere(call, error) == Result(FALSE, TRUE, None, error, "error", FALSE)

(* the catch block of a handler: the error becomes a result *)
Caught(call, error) == Result(TRUE, FALSE, call.prefix, error, "error", FALSE)

(* reading a field of null throws *)
TypeError == Outcome("type", 0, None, NoText, NoValue)

(* The handler after the upstream call: an error goes to the catch block,  *)
(* a value is rendered: no results, a list (for mem_list with the hint of  *)
(* the next page) or one item.                                             *)
ToolResult(call, outcome) ==
  IF outcome.kind # "value" THEN Caught(call, outcome)
  ELSE IF call.reads /\ outcome.value.type = "null" THEN Caught(call, TypeError)
  ELSE IF ~call.list THEN Result(FALSE, FALSE, None, NoOutcome, "item", FALSE)
  ELSE IF outcome.value.results <= 0
  THEN Result(FALSE, FALSE, None, NoOutcome, "no results", FALSE)
  ELSE Result(FALSE, FALSE, None, NoOutcome, "list",
              call.name = "mem_list" /\ outcome.value.next_page)

(* the handler has not returned *)
NoResult == Result(FALSE, FALSE, None, NoOutcome, "none", FALSE)

(* no tool has run: there is no call, no request and no result *)
IdleTool == [pc |-> "idle", fetches |-> 0]

(* no handler is observed *)
IdleHandler == [pc |-> "idle"]

Init ==
  /\ httpTransports = [i \in {} |-> NoObj]
  /\ sseTransports = [i \in {} |-> NoObj]
  /\ reqs = EmptyBag
  /\ resp = NoResp
  /\ conns = {}
  /\ now = 0
  /\ nextSweep = CLEANUP_INTERVAL_MS
  /\ ticks = 0
  /\ uuids = 0
  /\ objs = 0
  /\ known = {}
  /\ connected = {}
  /\ deleted = {}
  /\ reaped = {}
  /\ tool = IdleTool
  /\ handler = IdleHandler

(* mutant: a session is stale once its age reaches the limit *)
StaleAtThreshold(t, session) == t - session.lastAccess >= SESSION_TTL_MS

(* ---- the cleanup timer ---- *)
Stale(t, session) == t - session.lastAccess > SESSION_TTL_MS

StaleIds(t, store) == {id \in DOMAIN store : Stale(t, store[id])}

(* mutant: the sweep clears the transport of a stale entry and keeps the key *)
SweepTorn(t, store) ==
  [i \in DOMAIN store |->
     IF Stale(t, store[i]) THEN [store[i] EXCEPT !.transport = NoObj] ELSE store[i]]

(* mutant: the sweep spares a session that has a request in flight *)
SweepSparingBusy(t, store) ==
  [i \in (DOMAIN store) \
          {id \in StaleIds(t, store) : \A q \in Pending : q.sessionId # id} |->
     store[i]]

Sweep(t, store) == [i \in (DOMAIN store) \ StaleIds(t, store) |-> store[i]]

Reaper ==
  /\ Ready
  /\ UNCHANGED <<tool, handler>>
  /\ now >= nextSweep
  /\ httpTransports' = Sweep(now, httpTransports)
  /\ reaped' = reaped \cup StaleIds(now, httpTransports)
  /\ nextSweep' = now + CLEANUP_INTERVAL_MS
  /\ UNCHANGED <<sseTransports, reqs, resp, conns, now, ticks, uuids,
                 objs, known, connected, deleted>>

Advance(d) ==
  /\ Ready
  /\ UNCHANGED <<tool, handler>>
  /\ ticks < MaxTicks
  /\ now' = now + d
  /\ ticks' = ticks + 1
  /\ UNCHANGED <<httpTransports, sseTransports, reqs, resp, conns, nextSweep,
                 uuids, objs, known, connected, deleted, reaped>>

(* ---- /mcp: the streaming transport ---- *)

(* mutant: a POST with an id that is not stored creates a session *)
IsCreatingOrMissing(sid, init) == init \/ sid = NoId \/ ~Has(httpTransports, sid)

(* mutant: an initialize message with a stored id is routed to that session *)
IsCreatingUnlessStored(sid, init) ==
  (init /\ ~Has(httpTransports, sid)) \/ sid = NoId

(* mutant: only an initialize message creates a session *)
IsCreatingInitOnly(sid, init) == init

(* a POST creates a session when it is an initialize message or carries no id *)
IsCreating(sid, init) == init \/ sid = NoId

(* mutant: the new session is stored under the id the client sent *)
NewSessionIdFromClient(sid) == IF sid # NoId THEN sid ELSE uuids + 1

(* the id the new session is stored under: the next randomUUID() *)
NewSessionId(sid) == uuids + 1

NotFoundBody == "Session not found. Please re-initialize."

(* the request as it enters the handler of /mcp *)
McpReq(method, sid, init) ==
  [IdleReq EXCEPT !.route = "mcp", !.method = method, !.sid = sid,
                  !.init = init, !.sessionId = sid]

(* mutant: the handler awaits before it looks the session up *)
McpRouteDeferred(req) ==
  /\ Await([req EXCEPT !.pc = "connecting"])
  /\ UNCHANGED <<httpTransports, known>>

(* From the lookup of the session to the call of transport.handleRequest,  *)
(* for a request that arrives: a missing session is answered 404, a stored *)
(* one is touched, named in the response header and handed the request.    *)
McpRoute(req) ==
  IF ~Has(httpTransports, req.sessionId)
  THEN /\ Answer([req EXCEPT !.pc = "done", !.status = 404, !.body = NotFoundBody])
       /\ UNCHANGED <<httpTransports, known>>
  ELSE /\ httpTransports' = Touch(httpTransports, req.sessionId, now)
       /\ Await([req EXCEPT !.pc = "handling", !.hdr = req.sessionId,
                            !.transport = httpTransports[req.sessionId].transport])
       /\ known' = known \cup {req.sessionId}

(* the same segment for the request q that resumes after the handshake *)
McpRouteNew(q) ==
  IF ~Has(httpTransports, q.sessionId)
  THEN /\ Finish(q, [q EXCEPT !.pc = "done", !.status = 404, !.body = NotFoundBody])
       /\ UNCHANGED <<httpTransports, known>>
  ELSE /\ httpTransports' = Touch(httpTransports, q.sessionId, now)
       /\ AwaitNext(q, [q EXCEPT !.pc = "handling", !.hdr = q.sessionId,
                                 !.transport = httpTransports[q.sessionId].transport])
       /\ known' = known \cup {q.sessionId}

(* mutant: the request is handed to the new transport without the handshake *)
McpCreateNoHandshake(req) ==
  /\ uuids < MaxSessions
  /\ uuids' = uuids + 1
  /\ objs' = objs + 2
  /\ httpTransports' = Put(httpTransports, NewSessionId(req.sid),
                           [server |-> objs + 1, transport |-> objs + 2,
                            lastAccess |-> now])
  /\ Await([req EXCEPT !.pc = "handling", !.sessionId = NewSessionId(req.sid),
                       !.hdr = NewSessionId(req.sid), !.made = objs + 2,
                       !.transport = objs + 2])
  /\ known' = known \cup {NewSessionId(req.sid)}

(* mutant: every streaming session uses one server built at start-up *)
McpCreateSharedServer(req) ==
  /\ uuids < MaxSessions
  /\ uuids' = uuids + 1
  /\ objs' = objs + 2
  /\ httpTransports' = Put(httpTransports, NewSessionId(req.sid),
                           [server |-> 1, transport |-> objs + 2,
                            lastAccess |-> now])
  /\ Await([req EXCEPT !.pc = "connecting", !.sessionId = NewSessionId(req.sid),
                       !.made = objs + 2])
  /\ UNCHANGED known

(* the creating branch of POST: mint the id, build server and transport,   *)
(* store the entry and start the handshake                                 *)
McpCreate(req) ==
  /\ uuids < MaxSessions
  /\ uuids' = uuids + 1
  /\ objs' = objs + 2
  /\ httpTransports' = Put(httpTransports, NewSessionId(req.sid),
                           [server |-> objs + 1, transport |-> objs + 2,
                            lastAccess |-> now])
  /\ Await([req EXCEPT !.pc = "connecting", !.sessionId = NewSessionId(req.sid),
                       !.made = objs + 2])
  /\ UNCHANGED known

McpPost(sid, init) ==
  /\ Ready
  /\ UNCHANGED <<tool, handler>>
  /\ IF IsCreating(sid, init)
     THEN McpCreate(McpReq("POST", sid, init))
     ELSE McpRoute(McpReq("POST", sid, init)) /\ UNCHANGED <<uuids, objs>>
  /\ UNCHANGED <<sseTransports, conns, now, nextSweep, ticks, connected,
                 deleted, reaped>>

(* server.connect(transport) resolves: the handler resumes at the lookup *)
ConnectResolve(q) ==
  /\ Ready
  /\ UNCHANGED <<tool, handler>>
  /\ q.pc = "connecting"
  /\ connected' = connected \cup {q.made}
  /\ McpRouteNew(q)
  /\ UNCHANGED <<sseTransports, conns, now, nextSweep, ticks, uuids,
                 objs, deleted, reaped>>

(* server.connect(transport) rejects: the await is outside any try block,  *)
(* the handler ends with the fault and sends nothing                       *)
ConnectReject(q) ==
  /\ Ready
  /\ UNCHANGED <<tool, handler>>
  /\ q.pc = "connecting"
  /\ Finish(q, [q EXCEPT !.pc = "fault"])
  /\ UNCHANGED <<httpTransports, sseTransports, conns, now, nextSweep, ticks,
                 uuids, objs, known, connected, deleted, reaped>>

(* mutant: the session is looked up before the header is checked *)
McpGetLookupFirst(sid) ==
  /\ Ready
  /\ UNCHANGED <<tool, handler>>
  /\ McpRoute(McpReq("GET", sid, FALSE))
  /\ UNCHANGED <<sseTransports, conns, now, nextSweep, ticks, uuids, objs,
                 connected, deleted, reaped>>

McpGet(sid) ==
  /\ Ready
  /\ UNCHANGED <<tool, handler>>
  /\ IF sid = NoId
     THEN /\ Answer([McpReq("GET", sid, FALSE) EXCEPT
                        !.pc = "done", !.status = 400,
                        !.body = "Missing Mcp-Session-Id header"])
          /\ UNCHANGED <<httpTransports, known>>
     ELSE McpRoute(McpReq("GET", sid, FALSE))
  /\ UNCHANGED <<sseTransports, conns, now, nextSweep, ticks, uuids, objs,
                 connected, deleted, reaped>>

(* mutant: a DELETE for an id that is not stored is answered 404 *)
McpDeleteStrict(sid) ==
  /\ Ready
  /\ UNCHANGED <<tool, handler>>
  /\ IF sid # NoId /\ Has(httpTransports, sid)
     THEN /\ httpTransports' = Remove(httpTransports, sid)
          /\ deleted' = deleted \cup {sid}
     ELSE UNCHANGED <<httpTransports, deleted>>
  /\ Answer([McpReq("DELETE", sid, FALSE) EXCEPT
               !.pc = "done",
               !.status = IF sid # NoId /\ Has(httpTransports, sid) THEN 204 ELSE 404])
  /\ UNCHANGED <<sseTransports, conns, now, nextSweep, ticks, uuids, objs,
                 known, connected, reaped>>

(* mutant: a DELETE is acknowledged and the entry stays *)
McpDeleteKeep(sid) ==
  /\ Ready
  /\ UNCHANGED <<tool, handler>>
  /\ deleted' = IF sid # NoId /\ Has(httpTransports, sid)
                THEN deleted \cup {sid} ELSE deleted
  /\ Answer([McpReq("DELETE", sid, FALSE) EXCEPT !.pc = "done", !.status = 204])
  /\ UNCHANGED <<httpTransports, sseTransports, conns, now, nextSweep, ticks,
                 uuids, objs, known, connected, reaped>>

McpDelete(sid) ==
  /\ Ready
  /\ UNCHANGED <<tool, handler>>
  /\ IF sid # NoId /\ Has(httpTransports, sid)
     THEN /\ httpTransports' = Remove(httpTransports, sid)
          /\ deleted' = deleted \cup {sid}
     ELSE UNCHANGED <<httpTransports, deleted>>
  /\ Answer([McpReq("DELETE", sid, FALSE) EXCEPT !.pc = "done", !.status = 204])
  /\ UNCHANGED <<sseTransports, conns, now, nextSweep, ticks, uuids, objs,
                 known, connected, reaped>>

(* An OPTIONS request: the CORS middleware answers it before any route is  *)
(* reached. The middleware reads the method only, so the request is        *)
(* modelled without its session header.                                    *)
Preflight ==
  /\ Ready
  /\ UNCHANGED <<tool, handler>>
  /\ Answer([McpReq("OPTIONS", NoId, FALSE) EXCEPT !.pc = "done", !.status = 200])
  /\ UNCHANGED <<httpTransports, sseTransports, conns, now, nextSweep, ticks,
                 uuids, objs, known, connected, deleted, reaped>>

(* the methods other than POST, GET, DELETE and OPTIONS that the model sends *)
OtherMethods == {"PUT"}

(* any other method on /mcp: the route answers 405 *)
McpOther(method, sid) ==
  /\ Ready
  /\ UNCHANGED <<tool, handler>>
  /\ Answer([McpReq(method, sid, FALSE) EXCEPT !.pc = "done", !.status = 405,
                                               !.body = "Method not allowed"])
  /\ UNCHANGED <<httpTransports, sseTransports, conns, now, nextSweep, ticks,
                 uuids, objs, known, connected, deleted, reaped>>

(* transport.handleRequest / handlePostMessage resolves: the transport has *)
(* written the response                                                    *)
HandleResolve(q) ==
  /\ Ready
  /\ UNCHANGED <<tool, handler>>
  /\ q.pc = "handling"
  /\ Finish(q, [q EXCEPT !.pc = "done", !.status = 200])
  /\ UNCHANGED <<httpTransports, sseTransports, conns, now, nextSweep, ticks,
                 uuids, objs, known, connected, deleted, reaped>>

(* it rejects: the catch block answers 500 unless the headers are sent *)
HandleReject(q, headersSent) ==
  /\ Ready
  /\ UNCHANGED <<tool, handler>>
  /\ q.pc = "handling"
  /\ Finish(q, IF headersSent
               THEN [q EXCEPT !.pc = "done", !.status = 200]
               ELSE [q EXCEPT !.pc = "done", !.status = 500,
                              !.body = "Internal server error"])
  /\ UNCHANGED <<httpTransports, sseTransports, conns, now, nextSweep, ticks,
                 uuids, objs, known, connected, deleted, reaped>>

(* the event loop takes the next event *)
Deliver ==
  /\ resp # NoResp
  /\ resp' = NoResp
  /\ UNCHANGED <<tool, handler>>
  /\ UNCHANGED <<httpTransports, sseTransports, reqs, conns, now, nextSweep,
                 ticks, uuids, objs, known, connected, deleted, reaped>>

(* ---- /sse and /messages: the event-stream transport ---- *)

(* GET /sse: build server and transport (the transport mints its id),      *)
(* store the entry, register the close listener, start the handshake; the  *)
(* handshake sends the id to the client                                    *)
SseOpen ==
  /\ Ready
  /\ UNCHANGED <<tool, handler>>
  /\ uuids < MaxSessions
  /\ uuids' = uuids + 1
  /\ objs' = objs + 2
  /\ sseTransports' = Put(sseTransports, uuids + 1,
                          [server |-> objs + 1, transport |-> objs + 2])
  /\ conns' = conns \cup {[pc |-> "connecting", sessionId |-> uuids + 1,
                           transport |-> objs + 2, status |-> 0]}
  /\ known' = known \cup {uuids + 1}
  /\ UNCHANGED <<httpTransports, reqs, resp, now, nextSweep, ticks, connected,
                 deleted, reaped>>

SseConnectResolve(c) ==
  /\ Ready
  /\ UNCHANGED <<tool, handler>>
  /\ c.pc = "connecting"
  /\ conns' = (conns \ {c}) \cup {[c EXCEPT !.pc = "open", !.status = 200]}
  /\ UNCHANGED <<httpTransports, sseTransports, reqs, resp, now, nextSweep,
                 ticks, uuids, objs, known, connected, deleted, reaped>>

(* The handshake fails: the catch block answers 500 unless the headers of  *)
(* the stream are sent. With the headers sent it does nothing: the handler *)
(* has ended and the stream stays open, as after a handshake that          *)
(* resolved.                                                               *)
SseConnectReject(c, headersSent) ==
  /\ Ready
  /\ UNCHANGED <<tool, handler>>
  /\ c.pc = "connecting"
  /\ conns' = (conns \ {c}) \cup
                {IF headersSent
                 THEN [c EXCEPT !.pc = "open", !.status = 200]
                 ELSE [c EXCEPT !.pc = "failed", !.status = 500]}
  /\ UNCHANGED <<httpTransports, sseTransports, reqs, resp, now, nextSweep,
                 ticks, uuids, objs, known, connected, deleted, reaped>>

(* mutant: the listener removes the entry only after the handshake *)
OnCloseIfOpen(store, id) ==
  IF \E c \in conns : c.sessionId = id /\ c.pc = "open"
  THEN Remove(store, id) ELSE store

(* the close event of the response: the listener removes the entry *)
OnClose(store, id) == Remove(store, id)

SseClose(c) ==
  /\ Ready
  /\ UNCHANGED <<tool, handler>>
  /\ sseTransports' = OnClose(sseTransports, c.sessionId)
  /\ conns' = conns \ {c}
  /\ UNCHANGED <<httpTransports, reqs, resp, now, nextSweep, ticks, uuids, objs, known, connected, deleted, reaped>>

(* the request as it enters the handler of /messages *)
MsgReq(sid) ==
  [IdleReq EXCEPT !.route = "messages", !.method = "POST", !.sid = sid,
                  !.sessionId = sid]

(* mutant: the session is looked up before the parameter is checked *)
MsgPostLookupFirst(sid) ==
  /\ Ready
  /\ UNCHANGED <<tool, handler>>
  /\ IF ~Has(sseTransports, sid)
     THEN Answer([MsgReq(sid) EXCEPT !.pc = "done", !.status = 404,
                                     !.body = "Session not found"])
     ELSE Await([MsgReq(sid) EXCEPT !.pc = "handling",
                                    !.transport = sseTransports[sid].transport])
  /\ UNCHANGED <<httpTransports, sseTransports, conns, now, nextSweep, ticks,
                 uuids, objs, known, connected, deleted, reaped>>

(* mutant: a message is routed to a session of either store *)
MsgPostAnyStore(sid) ==
  /\ Ready
  /\ UNCHANGED <<tool, handler>>
  /\ IF sid = NoId
     THEN Answer([MsgReq(sid) EXCEPT !.pc = "done", !.status = 400,
                                     !.body = "Missing sessionId parameter"])
     ELSE IF ~Has(sseTransports, sid) /\ ~Has(httpTransports, sid)
     THEN Answer([MsgReq(sid) EXCEPT !.pc = "done", !.status = 404,
                                     !.body = "Session not found"])
     ELSE Await([MsgReq(sid) EXCEPT
                   !.pc = "handling",
                   !.transport = IF Has(sseTransports, sid)
                                 THEN sseTransports[sid].transport
                                 ELSE httpTransports[sid].transport])
  /\ UNCHANGED <<httpTransports, sseTransports, conns, now, nextSweep, ticks,
                 uuids, objs, known, connected, deleted, reaped>>

MsgPost(sid) ==
  /\ Ready
  /\ UNCHANGED <<tool, handler>>
  /\ IF sid = NoId
     THEN Answer([MsgReq(sid) EXCEPT !.pc = "done", !.status = 400,
                                     !.body = "Missing sessionId parameter"])
     ELSE IF ~Has(sseTransports, sid)
     THEN Answer([MsgReq(sid) EXCEPT !.pc = "done", !.status = 404,
                                     !.body = "Session not found"])
     ELSE Await([MsgReq(sid) EXCEPT !.pc = "handling",
                                    !.transport = sseTransports[sid].transport])
  /\ UNCHANGED <<httpTransports, sseTransports, conns, now, nextSweep, ticks,
                 uuids, objs, known, connected, deleted, reaped>>

Next ==
  \/ \E sid \in ClientIds, init \in BOOLEAN : McpPost(sid, init)
  \/ \E q \in Pending : ConnectResolve(q)
  \/ \E q \in Pending : ConnectReject(q)
  \/ \E sid \in ClientIds : McpGet(sid)
  \/ \E sid \in ClientIds : McpDelete(sid)
  \/ Preflight
  \/ \E method \in OtherMethods, sid \in ClientIds : McpOther(method, sid)
  \/ \E q \in Pending : HandleResolve(q)
  \/ \E q \in Pending, headersSent \in BOOLEAN : HandleReject(q, headersSent)
  \/ Deliver
  \/ SseOpen
  \/ \E c \in conns : SseConnectResolve(c)
  \/ \E c \in conns, headersSent \in BOOLEAN : SseConnectReject(c, headersSent)
  \/ \E c \in conns : SseClose(c)
  \/ \E sid \in ClientIds : MsgPost(sid)
  \/ Reaper
  \/ \E d \in Deltas : Advance(d)

Spec == Init /\ [][Next]_vars

(* ---- the clock without an end ---- *)

Max(a, b) == IF a >= b THEN a ELSE b

(* the instant t as it is kept once d more have passed *)
Aged(t, d) == Max(t - d, now - (SESSION_TTL_MS + 1))

(* Time passes by d. The timer and the handlers read the clock only in     *)
(* differences (now - session.lastAccess, the interval of setInterval), so *)
(* the instants are kept relative to the present: now stays and every      *)
(* stored instant moves d into the past. An instant more than the limit    *)
(* ago stays such an instant, and a timer that is due stays due.           *)
Elapse(d) ==
  /\ Ready
  /\ UNCHANGED <<tool, handler>>
  /\ httpTransports' =
       [i \in DOMAIN httpTransports |->
          [httpTransports[i] EXCEPT !.lastAccess = Aged(@, d)]]
  /\ nextSweep' = Max(nextSweep - d, now)
  /\ UNCHANGED <<sseTransports, reqs, resp, conns, now, ticks, uuids, objs,
                 known, connected, deleted, reaped>>

(* The traffic on /mcp, the cleanup timer and the clock. The routes /sse   *)
(* and /messages are left out: their handlers neither read nor write the   *)
(* streaming store, the timer or the clock.                                *)
LiveNext ==
  \/ \E sid \in ClientIds, init \in BOOLEAN : McpPost(sid, init)
  \/ \E q \in Pending : ConnectResolve(q)
  \/ \E q \in Pending : ConnectReject(q)
  \/ \E sid \in ClientIds : McpGet(sid)
  \/ \E sid \in ClientIds : McpDelete(sid)
  \/ Preflight
  \/ \E method \in OtherMethods, sid \in ClientIds : McpOther(method, sid)
  \/ \E q \in Pending : HandleResolve(q)
  \/ \E q \in Pending, headersSent \in BOOLEAN : HandleReject(q, headersSent)
  \/ Deliver
  \/ Reaper
  \/ \E d \in Deltas : Elapse(d)

(* The event loop runs a timer that is due and the next event whenever it  *)
(* is free, and it is free again and again; the clock never stops.         *)
LiveSpec ==
  /\ Init /\ [][LiveNext]_vars
  /\ WF_vars(Deliver)
  /\ SF_vars(Reaper)
  /\ SF_vars(\E d \in Deltas : Elapse(d))

(* ---- a tool invocation and its upstream call ---- *)

(* the variables of the session layer *)
sessionVars == <<httpTransports, sseTransports, reqs, resp, conns, now, nextSweep,
                 ticks, uuids, objs, known, connected, deleted, reaped>>

(* the handler ends: it returns the result made of the outcome of the call *)
Return(outcome) ==
  tool' = [tool EXCEPT !.pc = "returned", !.outcome = outcome,
                       !.result = ToolResult(tool.call, outcome)]

(* The transport of a stored session, handling the request q, invokes a    *)
(* tool: the handler builds the options and calls fetch.                   *)
ToolInvoke(q, call) ==
  /\ Ready
  /\ tool.pc \in {"idle", "returned"}
  /\ q.route = "mcp" /\ q.pc = "handling"
  /\ Has(httpTransports, q.sessionId)
  /\ tool' = [pc |-> "fetch", call |-> call, session |-> q.sessionId,
              request |-> Options(call.api, call.method, call.hasBody),
              response |-> NoResponse, fetches |-> 1, outcome |-> NoOutcome,
              result |-> NoResult]
  /\ UNCHANGED <<sessionVars, handler>>

(* mutant: a call whose fetch failed is tried again *)
FetchRejectRetry ==
  /\ Ready
  /\ tool.pc = "fetch"
  /\ IF tool.fetches < 2
     THEN tool' = [tool EXCEPT !.fetches = tool.fetches + 1]
     ELSE Return(NetworkError)
  /\ UNCHANGED <<sessionVars, handler>>

(* fetch rejects: the error is thrown to the catch block of the handler *)
FetchReject ==
  /\ Ready
  /\ tool.pc = "fetch"
  /\ Return(NetworkError)
  /\ UNCHANGED <<sessionVars, handler>>

(* fetch resolves with a response: the call awaits the text of its body *)
FetchResolve(response) ==
  /\ Ready
  /\ tool.pc = "fetch"
  /\ tool' = [tool EXCEPT !.pc = "body", !.response = response]
  /\ UNCHANGED <<sessionVars, handler>>

(* the body is read: the call returns or throws, and the handler ends *)
BodyResolve ==
  /\ Ready
  /\ tool.pc = "body"
  /\ Return(CallOutcome(tool.call, tool.response))
  /\ UNCHANGED <<sessionVars, handler>>

(* the read of the body rejects *)
BodyReject ==
  /\ Ready
  /\ tool.pc = "body"
  /\ Return(NetworkError)
  /\ UNCHANGED <<sessionVars, handler>>

(* a session that serves requests while its tools run *)
ToolNext ==
  \/ \E sid \in ClientIds, init \in BOOLEAN : McpPost(sid, init)
  \/ \E q \in Pending : ConnectResolve(q)
  \/ \E q \in Pending : HandleResolve(q)
  \/ Deliver
  \/ \E q \in Pending, call \in Calls : ToolInvoke(q, call)
  \/ FetchReject
  \/ \E response \in Responses : FetchResolve(response)
  \/ BodyResolve
  \/ BodyReject

ToolSpec == Init /\ [][ToolNext]_vars

(* ---- the tool handlers: request bodies and rendered text ---- *)

(* A JavaScript value as far as the handlers look at it: its type and, for *)
(* a string or an array its length, for a boolean 1 (true) or 0, for a     *)
(* number the number.                                                      *)
Val(kind, size) == [kind |-> kind, size |-> size]

Undefined == Val("undefined", 0)

Null == Val("null", 0)

Str(n) == Val("string", n)

Arr(n) == Val("array", n)

Bool(b) == Val("boolean", IF b THEN 1 ELSE 0)

Num(n) == Val("number", n)

(* if (v): an array is truthy whatever its length *)
Truthy(v) ==
  CASE v.kind = "string" -> v.size > 0
    [] v.kind = "boolean" -> v.size = 1
    [] v.kind = "number" -> v.size # 0
    [] v.kind = "array" -> TRUE
    [] OTHER -> FALSE

(* mutant: an array is sent whenever it is set *)
HasLengthOrEmpty(v) == v.kind \in {"string", "array"}

(* if (v?.length) *)
HasLength(v) == v.kind \in {"string", "array"} /\ v.size > 0

(* the values a caller can give an optional argument *)
OptionalStrings == {Undefined, Null, Str(0), Str(1)}

OptionalArrays == {Undefined, Null, Arr(0), Arr(1)}

OptionalBooleans == {Undefined, Bool(FALSE), Bool(TRUE)}

(* the optional arguments of the tools that send a body, by the test that  *)
(* guards them                                                             *)
TruthyFields(name) ==
  CASE name = "mem_search" ->
         {"filter_by_contains_open_tasks", "filter_by_contains_tasks",
          "filter_by_contains_images", "filter_by_contains_files"}
    [] name = "mem_create" -> {"id", "created_at", "updated_at"}
    [] name = "mem_it" -> {"instructions", "context", "timestamp"}
    [] OTHER -> {}

LengthFields(name) ==
  CASE name = "mem_search" -> {"filter_by_collection_ids"}
    [] name = "mem_create" -> {"collection_titles", "collection_ids"}
    [] OTHER -> {}

OptionalFields(name) == TruthyFields(name) \cup LengthFields(name)

(* the fields every body of the tool has *)
RequiredFields(name) ==
  CASE name = "mem_search" -> {"query", "config"}
    [] name = "mem_create" -> {"content"}
    [] name = "mem_it" -> {"input"}
    [] name = "mem_collections_search" -> {"query"}
    [] OTHER -> {}

(* the arguments the handlers can be called with *)
SearchArgs ==
  {[query |-> Str(1), config |-> Bool(TRUE),
    filter_by_contains_open_tasks |-> o, filter_by_contains_tasks |-> t,
    filter_by_contains_images |-> i, filter_by_contains_files |-> f,
    filter_by_collection_ids |-> c] :
     o \in OptionalBooleans, t \in OptionalBooleans, i \in OptionalBooleans,
     f \in OptionalBooleans, c \in OptionalArrays}

CreateArgs ==
  {[content |-> Str(1), collection_titles |-> t, collection_ids |-> c,
    id |-> i, created_at |-> ca, updated_at |-> ua] :
     t \in OptionalArrays, c \in OptionalArrays, i \in OptionalStrings,
     ca \in OptionalStrings, ua \in OptionalStrings}

MemItArgs ==
  {[input |-> Str(1), instructions |-> i, context |-> c, timestamp |-> t] :
     i \in OptionalStrings, c \in OptionalStrings, t \in OptionalStrings}

Args(name) ==
  CASE name = "mem_search" -> SearchArgs
    [] name = "mem_create" -> CreateArgs
    [] name = "mem_it" -> MemItArgs
    [] name = "mem_collections_search" -> {[query |-> Str(1)]}
    [] OTHER -> {[none |-> Undefined]}

(* the fields of the body the handler builds *)
BodyFields(name, args) ==
  RequiredFields(name)
  \cup {f \in TruthyFields(name) : Truthy(args[f])}
  \cup {f \in LengthFields(name) : HasLength(args[f])}

(* the body: a boolean filter is sent as true, any other field as given *)
BuildBody(name, args) ==
  [f \in BodyFields(name, args) |->
     IF args[f].kind = "boolean" THEN Bool(TRUE) ELSE args[f]]


(* the characters of a note's content that mem_search and mem_list show *)
SearchContentChars == 500

ListContentChars == 300

(* Text put into a template: a string gives its len characters, a number   *)
(* its digits, undefined and null give the words undefined and null.       *)
Printed(v) ==
  CASE v.kind = "string" -> [word |-> "", len |-> v.size]
    [] v.kind = "number" -> [word |-> "number", len |-> v.size]
    [] v.kind = "undefined" -> [word |-> "undefined", len |-> 9]
    [] v.kind = "null" -> [word |-> "null", len |-> 4]
    [] OTHER -> [word |-> v.kind, len |-> v.size]

Untitled == [word |-> "Untitled", len |-> 8]

(* nothing printed *)
NoPrint == [word |-> "none", len |-> 0]

(* title || 'Untitled' *)
TitleOrUntitled(title) == IF Truthy(title) THEN Printed(title) ELSE Untitled

(* the content part of an item block *)
Shown(present, shown, ellipsis) ==
  [present |-> present, shown |-> shown, ellipsis |-> ellipsis]

(* mutant: content at the limit is marked too *)
TruncatedFrom(content, limit) ==
  Shown(TRUE,
        Printed(Str(IF content.size < limit THEN content.size ELSE limit)),
        content.size >= limit)

(* content.substring(0, limit) and '...' if content.length > limit *)
Truncated(content, limit) ==
  Shown(TRUE,
        Printed(Str(IF content.size < limit THEN content.size ELSE limit)),
        content.size > limit)

(* the block of a note in a list: the content line only if (note.content) *)
NoteBlock(note, limit) ==
  [title |-> TitleOrUntitled(note.title),
   content |-> IF Truthy(note.content)
               THEN Truncated(note.content, limit)
               ELSE Shown(FALSE, NoPrint, FALSE)]

(* the text of mem_read: the whole content *)
ReadBlock(note) ==
  [title |-> TitleOrUntitled(note.title),
   content |-> Shown(TRUE, Printed(note.content), FALSE)]

(* the block of a collection: the description line only if it is set *)
CollectionBlock(collection) ==
  [title |-> Printed(collection.title),
   content |-> IF Truthy(collection.description)
               THEN Shown(TRUE, Printed(collection.description), FALSE)
               ELSE Shown(FALSE, NoPrint, FALSE)]

(* the text a handler returns: a sentence, with the query where it has     *)
(* one, the total of the header, the item blocks and the hint              *)
Rendered(sentence, query, total, blocks, hint) ==
  [isError |-> FALSE, sentence |-> sentence, query |-> query, total |-> total,
   blocks |-> blocks, hint |-> hint]

NoRender == Rendered("none", NoPrint, NoPrint, <<>>, FALSE)

ListTools ==
  {"mem_search", "mem_list", "mem_collections_list", "mem_collections_search"}

(* the fixed sentence of an empty list *)
NoResultsSentence(name) ==
  CASE name = "mem_search" -> "No notes found matching \"<query>\""
    [] name = "mem_list" -> "No notes found"
    [] name = "mem_collections_list" -> "No collections found"
    [] name = "mem_collections_search" -> "No collections found matching \"<query>\""
    [] OTHER -> "none"

(* the header above the blocks *)
FoundSentence(name) ==
  CASE name = "mem_search" -> "Found <total> notes matching \"<query>\":"
    [] name = "mem_list" -> "Found <total> notes:"
    [] name = "mem_collections_list" -> "Found <total> collections:"
    [] name = "mem_collections_search" ->
         "Found <total> collections matching \"<query>\":"
    [] OTHER -> "none"

(* the query a sentence quotes *)
QueryOf(name, args) ==
  IF name \in {"mem_search", "mem_collections_search"}
  THEN Printed(args.query) ELSE NoPrint

(* mutant: the blocks are built from the end of the list *)
BlocksReversed(name, items) ==
  [i \in DOMAIN items |->
     LET item == items[Len(items) + 1 - i]
     IN  CASE name = "mem_search" -> NoteBlock(item, SearchContentChars)
           [] name = "mem_list" -> NoteBlock(item, ListContentChars)
           [] OTHER -> CollectionBlock(item)]

(* for (const item of result.results): one block each, in order *)
Blocks(name, items) ==
  [i \in DOMAIN items |->
     CASE name = "mem_search" -> NoteBlock(items[i], SearchContentChars)
       [] name = "mem_list" -> NoteBlock(items[i], ListContentChars)
       [] OTHER -> CollectionBlock(items[i])]

(* a list tool after the upstream call returned the object value *)
RenderList(name, args, value) ==
  IF ~value.results.present \/ Len(value.results.items) = 0
  THEN Rendered(NoResultsSentence(name), QueryOf(name, args), NoPrint, <<>>, FALSE)
  ELSE Rendered(FoundSentence(name), QueryOf(name, args), Printed(value.total),
                Blocks(name, value.results.items),
                name = "mem_list" /\ Truthy(value.next_page))

(* what a handler returns for the object its upstream call returned *)
Render(name, args, value) ==
  CASE name \in ListTools -> RenderList(name, args, value)
    [] name = "mem_read" ->
         Rendered("<note>", NoPrint, NoPrint, <<ReadBlock(value)>>, FALSE)
    [] name = "mem_create" ->
         Rendered("Note created successfully!", NoPrint, NoPrint,
                  <<[title |-> Printed(value.title),
                     content |-> Shown(FALSE, NoPrint, FALSE)]>>, FALSE)
    [] OTHER ->
         Rendered("Content sent to Mem for processing!", NoPrint, NoPrint,
                  <<>>, FALSE)

(* the items of an upstream result list *)
MaxItems == 2

(* the sequences over S of at most n items *)
Lists(S, n) == UNION {[1..k -> S] : k \in 0..n}

(* the titles and contents the upstream service can return *)
Titles == {Undefined, Null, Str(0), Str(1)}

Contents ==
  {Undefined, Str(ListContentChars), Str(ListContentChars + 1),
   Str(SearchContentChars), Str(SearchContentChars + 1)}

Notes == {[title |-> t, content |-> c] : t \in Titles, c \in Contents}

Collections ==
  {[title |-> t, description |-> d] : t \in Titles, d \in {Undefined, Str(1)}}

(* the results field: missing, or a list *)
Results(present, items) == [present |-> present, items |-> items]

(* the objects a list tool can get: the total is missing, the length of    *)
(* the list or more, as in a page of a longer result                       *)
ListValues(S) ==
  {[results |-> Results(FALSE, <<>>), total |-> Undefined, next_page |-> Undefined]}
  \cup {[results |-> Results(TRUE, l), total |-> t, next_page |-> p] :
          l \in Lists(S, MaxItems),
          t \in {Undefined, Num(0), Num(1), Num(MaxItems + 1)},
          p \in {Undefined, Str(1)}}

(* the objects the upstream call of a tool can return *)
Values(name) ==
  CASE name \in {"mem_search", "mem_list"} -> ListValues(Notes)
    [] name \in {"mem_collections_list", "mem_collections_search"} ->
         ListValues(Collections)
    [] name \in {"mem_read", "mem_create"} -> Notes
    [] OTHER -> {[request_id |-> Str(1)]}

(* a handler: its arguments, the body it sent, the object it got and the   *)
(* text it returned                                                        *)
Handler(pc, name, args, body, value, text) ==
  [pc |-> pc, name |-> name, args |-> args, body |-> body, value |-> value,
   text |-> text]

NoBody == [f \in {} |-> Undefined]

(* the tools of v2.1.0 by name *)
ToolNames == {c.name : c \in Tools210}

(* the handler is called *)
Invoked(name, args, value) == Handler("called", name, args, NoBody, value, NoRender)

(* the handler builds the body of its request and awaits the upstream call *)
BuildRequest ==
  /\ handler.pc = "called"
  /\ handler' = [handler EXCEPT !.pc = "awaiting",
                                !.body = BuildBody(handler.name, handler.args)]
  /\ UNCHANGED <<sessionVars, tool>>

(* the upstream call returned an object: the handler renders it and returns *)
RenderResult ==
  /\ handler.pc = "awaiting"
  /\ handler' = [handler EXCEPT !.pc = "returned",
                                !.text = Render(handler.name, handler.args,
                                                handler.value)]
  /\ UNCHANGED <<sessionVars, tool>>

(* the call with no optional argument set, and a returned object with     *)
(* nothing to show: the body depends on the arguments only, the text on    *)
(* the object and the query only                                           *)
PlainArgs ==
  [name \in ToolNames |->
     CHOOSE a \in Args(name) : \A f \in OptionalFields(name) : a[f] = Undefined]

PlainValue ==
  [name \in ToolNames |->
     IF name \in ListTools
     THEN [results |-> Results(FALSE, <<>>), total |-> Undefined,
           next_page |-> Undefined]
     ELSE IF name \in {"mem_read", "mem_create"}
     THEN [title |-> Str(1), content |-> Str(ListContentChars)]
     ELSE [request_id |-> Str(1)]]

(* one handler call for each tool and arguments, and for each tool and     *)
(* returned object                                                         *)
HandlerInit ==
  /\ httpTransports = [i \in {} |-> NoObj]
  /\ sseTransports = [i \in {} |-> NoObj]
  /\ reqs = EmptyBag
  /\ resp = NoResp
  /\ conns = {}
  /\ now = 0
  /\ nextSweep = CLEANUP_INTERVAL_MS
  /\ ticks = 0
  /\ uuids = 0
  /\ objs = 0
  /\ known = {}
  /\ connected = {}
  /\ deleted = {}
  /\ reaped = {}
  /\ tool = IdleTool
  /\ \E name \in ToolNames :
       \/ \E args \in Args(name) : handler = Invoked(name, args, PlainValue[name])
       \/ \E value \in Values(name) : handler = Invoked(name, PlainArgs[name], value)

HandlerNext ==
  \/ BuildRequest
  \/ RenderResult

HandlerSpec == HandlerInit /\ [][HandlerNext]_vars

(* ---- observations ---- *)

(* The request that arrives in a step, as it stands after the first       *)
(* segment of its handler: answered at once or awaiting a promise.         *)
Arrived ==
  IF resp' # NoResp /\ BagCardinality(reqs') >= BagCardinality(reqs)
  THEN {resp'} ELSE {}

(* the other entries of the streaming store are what they were *)
OthersKept(id) ==
  \A i \in (DOMAIN httpTransports) \ {id} :
    Has(httpTransports', i) /\ httpTransports'[i] = httpTransports[i]

(* a request that does not create a session: a GET or a POST that is not initialize *)
NonCreating(q) == q.method = "GET" \/ (q.method = "POST" /\ ~q.init)

(* ---- C1 ---- *)
(* C1: on /mcp a GET, or a POST that is not an initialize message, that    *)
(* carries an id which is not a key of the streaming store is answered 404 *)
(* and leaves the streaming store as it was.                               *)
C1_UnknownIdNotFound ==
  [][\A q \in Arrived :
       (q.route = "mcp" /\ NonCreating(q) /\ q.sid # NoId
          /\ ~Has(httpTransports, q.sid))
       => (q.pc = "done" /\ q.status = 404 /\ httpTransports' = httpTransports)]_vars

(* a POST that is not initialize, carrying the id of a reaped session, got 404 *)
C1_Witness ==
  /\ resp.route = "mcp" /\ resp.method = "POST" /\ ~resp.init
  /\ resp.sid \in reaped
  /\ resp.status = 404
  /\ DOMAIN httpTransports # {}

(* ---- C2 ---- *)
(* C2: at a tick of the cleanup timer every streaming session older than   *)
(* 30 minutes is removed, and every session of at most that age stays with *)
(* its entry unchanged.                                                    *)
C2_ReaperEvicts ==
  [][nextSweep' # nextSweep =>
       \A id \in DOMAIN httpTransports :
         IF now - httpTransports[id].lastAccess > 30 * 60 * 1000
         THEN ~Has(httpTransports', id)
         ELSE Has(httpTransports', id) /\ httpTransports'[id] = httpTransports[id]]_vars

(* the timer has just run: one session was removed, another one survives *)
C2_Witness ==
  /\ nextSweep = now + CLEANUP_INTERVAL_MS
  /\ reaped # {}
  /\ DOMAIN httpTransports # {}

(* ---- C3 ---- *)
(* C3: a DELETE on /mcp is always answered 204; it removes the entry of a  *)
(* stored id and nothing else, and leaves the store as it is for an id     *)
(* that is not stored or missing, so a second DELETE of the same id is     *)
(* answered 204 and changes nothing.                                       *)
C3_DeleteIdempotent ==
  [][\A q \in Arrived :
       (q.route = "mcp" /\ q.method = "DELETE")
       => /\ q.pc = "done" /\ q.status = 204
          /\ DOMAIN httpTransports' = (DOMAIN httpTransports) \ {q.sid}
          /\ OthersKept(q.sid)
          /\ (q.sid \in deleted => httpTransports' = httpTransports)]_vars

(* a DELETE of a stored id was answered 204 and the other session is still stored *)
C3_Witness ==
  /\ resp.route = "mcp" /\ resp.method = "DELETE" /\ resp.status = 204
  /\ resp.sid \in deleted
  /\ DOMAIN httpTransports # {}

(* ---- C4 ---- *)
(* C4 as claimed: after a DELETE of a session id, every later POST or GET  *)
(* on /mcp carrying that id is answered 404.                               *)
C4_Original ==
  [][\A q \in Arrived :
       (q.route = "mcp" /\ q.method \in {"POST", "GET"} /\ q.sid \in deleted)
       => (q.pc = "done" /\ q.status = 404)]_vars

(* C4 as amended: after a DELETE of a session id, every later GET and      *)
(* every later POST that is not an initialize message, carrying that id,   *)
(* is answered 404.                                                        *)
C4_DeletedIdNotFound ==
  [][\A q \in Arrived :
       (q.route = "mcp" /\ NonCreating(q) /\ q.sid \in deleted)
       => (q.pc = "done" /\ q.status = 404)]_vars

(* a GET carrying a deleted id got 404 *)
C4_Witness ==
  /\ resp.route = "mcp" /\ resp.method = "GET"
  /\ resp.sid \in deleted
  /\ resp.status = 404

(* ---- C5 ---- *)
(* a POST on /mcp without session header and with an initialize payload *)
InitNoHeader(q) == q.route = "mcp" /\ q.method = "POST" /\ q.sid = NoId /\ q.init

Creating(q) == q.route = "mcp" /\ q.method = "POST" /\ (q.init \/ q.sid = NoId)

(* C6: the request that creates a streaming session first stores the entry *)
(* and awaits the handshake, and is handed to a transport only after the   *)
(* handshake of that transport has completed.                              *)
C6_HandshakeFirst ==
  /\ [][\A q \in Arrived :
          Creating(q)
          => /\ q.pc = "connecting"
             /\ Has(httpTransports', q.sessionId)
             /\ httpTransports'[q.sessionId].transport = q.made
             /\ q.made \notin connected']_vars
  /\ [](\A q \in Pending :
          (q.route = "mcp" /\ q.pc = "handling") => q.transport \in connected)
  /\ [](resp.route = "mcp" /\ resp.transport # NoObj => resp.transport \in connected)

(* the creating request is with the handler of its own, connected transport *)
C6_Witness ==
  \E q \in Pending :
    /\ q.route = "mcp" /\ q.made # NoObj /\ q.pc = "handling"
    /\ q.transport = q.made
    /\ q.made \in connected

(* ---- C7 ---- *)
(* the request is handed to the handler stored under its id, that session  *)
(* is touched at the time of the request and no other entry changes        *)
RoutedAndTouched(q) ==
  /\ q.pc = "handling"
  /\ q.transport = httpTransports[q.sid].transport
  /\ DOMAIN httpTransports' = DOMAIN httpTransports
  /\ httpTransports'[q.sid] = [httpTransports[q.sid] EXCEPT !.lastAccess = now]
  /\ OthersKept(q.sid)

(* C7 as claimed: every POST and every GET on /mcp carrying a stored id is *)
(* routed to the handler stored under that id and sets its last_access to  *)
(* the time of the request; no other session changes.                      *)
C7_Original ==
  [][\A q \in Arrived :
       (q.route = "mcp" /\ q.method \in {"POST", "GET"} /\ Has(httpTransports, q.sid))
       => RoutedAndTouched(q)]_vars

(* C7 as amended: every GET and every POST that is not an initialize       *)
(* message, carrying a stored id, is routed to the handler stored under    *)
(* that id and sets its last_access to the time of the request before the  *)
(* handler runs; no other session changes.                                 *)
C7_TouchOnRoute ==
  [][\A q \in Arrived :
       (q.route = "mcp" /\ NonCreating(q) /\ Has(httpTransports, q.sid))
       => RoutedAndTouched(q)]_vars

(* a GET is with the handler of its session, touched now, later than the   *)
(* other session                                                           *)
C7_Witness ==
  /\ resp.route = "mcp" /\ resp.method = "GET" /\ resp.pc = "handling"
  /\ Has(httpTransports, resp.sid)
  /\ httpTransports[resp.sid].lastAccess = now
  /\ now > 0
  /\ \E i \in DOMAIN httpTransports : httpTransports[i].lastAccess < now

(* ---- C8 ---- *)
(* C8: an id removed from the streaming store by DELETE or by the cleanup  *)
(* timer is never a key of the streaming store again.                      *)
C8_NoRecreation == \A id \in deleted \cup reaped : ~Has(httpTransports, id)

(* an initialize POST carrying a reaped id has stored a session under      *)
(* another, new id                                                         *)
C8_Witness ==
  /\ resp.route = "mcp" /\ resp.init /\ resp.sid \in reaped
  /\ resp.pc = "connecting"
  /\ Has(httpTransports, resp.sessionId)
  /\ ~Has(httpTransports, resp.sid)

(* ---- C9 ---- *)
(* C9: a POST on /messages without sessionId is answered 400; with a       *)
(* sessionId that is not a key of the event-stream store it is answered    *)
(* 404 with the body "Session not found"; neither store changes.           *)
C9_MessagesErrors ==
  [][\A q \in Arrived :
       q.route = "messages"
       => /\ q.sid = NoId => (q.pc = "done" /\ q.status = 400)
          /\ (q.sid # NoId /\ ~Has(sseTransports, q.sid))
               => (q.pc = "done" /\ q.status = 404 /\ q.body = "Session not found")
          /\ (q.sid = NoId \/ ~Has(sseTransports, q.sid))
               => (httpTransports' = httpTransports /\ sseTransports' = sseTransports)]_vars

(* a message posted with the id of a streaming session got 404 while an    *)
(* event-stream session was stored                                         *)
C9_Witness ==
  /\ resp.route = "messages" /\ resp.status = 404
  /\ Has(httpTransports, resp.sid)
  /\ DOMAIN sseTransports # {}

(* ---- C10 ---- *)
(* the ids of the connections on /sse whose close event has not fired *)
OpenIds(cs) == {c.sessionId : c \in cs}

(* C10: the keys of the event-stream store are the ids of the open         *)
(* connections; opening a connection adds one entry under a new id, and    *)
(* the close event removes the entry whatever the state of the handshake.  *)
C10_StoreIsOpenConns ==
  /\ [](DOMAIN sseTransports = OpenIds(conns))
  /\ [][\A id \in OpenIds(conns') \ OpenIds(conns) :
          /\ id \notin (DOMAIN sseTransports) \cup known
          /\ DOMAIN sseTransports' = (DOMAIN sseTransports) \cup {id}
          /\ \A i \in DOMAIN sseTransports : sseTransports'[i] = sseTransports[i]]_vars
  /\ [][\A id \in OpenIds(conns) \ OpenIds(conns') :
          ~Has(sseTransports', id)]_vars

(* one connection was closed and its entry is gone, another one is open *)
C10_Witness ==
  /\ \E id \in known :
       id \notin (DOMAIN sseTransports) \cup (DOMAIN httpTransports) \cup deleted \cup reaped
  /\ \E c \in conns : c.pc = "open" /\ Has(sseTransports, c.sessionId)

(* ---- C11 ---- *)
(* no step changes both stores; a step of the streaming transport leaves   *)
(* the event-stream store as it was and a step of the event-stream         *)
(* transport leaves the streaming store as it was                          *)
StoresIndependent ==
  /\ (httpTransports' # httpTransports => sseTransports' = sseTransports)
  /\ (((\E q \in Arrived : q.route = "mcp") \/ nextSweep' # nextSweep
        \/ connected' # connected)
       => sseTransports' = sseTransports)
  /\ ((conns' # conns \/ (\E q \in Arrived : q.route = "messages"))
       => httpTransports' = httpTransports)

(* the id is a key of the event-stream store only *)
OnlySse(id) == Has(sseTransports, id) /\ ~Has(httpTransports, id)

(* the id is a key of the streaming store only *)
OnlyHttp(id) == Has(httpTransports, id) /\ ~Has(sseTransports, id)

(* C11 as claimed: the stores are independent, and a POST, GET or DELETE   *)
(* on /mcp with an id that is a key of the event-stream store only, like a *)
(* POST on /messages with an id of the streaming store only, is answered   *)
(* 404.                                                                    *)
C11_Original ==
  [][/\ StoresIndependent
     /\ \A q \in Arrived :
          /\ (q.route = "mcp" /\ q.method \in {"POST", "GET", "DELETE"}
                /\ OnlySse(q.sid))
             => (q.pc = "done" /\ q.status = 404)
          /\ (q.route = "messages" /\ OnlyHttp(q.sid))
             => (q.pc = "done" /\ q.status = 404)]_vars

(* C11 as amended: the stores are independent; a GET or a POST that is not *)
(* an initialize message on /mcp with an id that is a key of the           *)
(* event-stream store only is answered 404, and so is a POST on /messages  *)
(* with an id that is a key of the streaming store only.                   *)
C11_StoresIndependent ==
  [][/\ StoresIndependent
     /\ \A q \in Arrived :
          /\ (q.route = "mcp" /\ NonCreating(q) /\ OnlySse(q.sid))
             => (q.pc = "done" /\ q.status = 404)
          /\ (q.route = "messages" /\ OnlyHttp(q.sid))
             => (q.pc = "done" /\ q.status = 404)]_vars

(* a GET on /mcp with the id of an open event-stream connection got 404    *)
(* while a streaming session was stored                                    *)
C11_Witness ==
  /\ resp.route = "mcp" /\ resp.method = "GET" /\ resp.status = 404
  /\ OnlySse(resp.sid)
  /\ DOMAIN httpTransports # {}

(* ---- C12 ---- *)
(* an entry of the streaming store with its server, transport and time *)
CompleteHttp(e) ==
  /\ DOMAIN e = {"server", "transport", "lastAccess"}
  /\ e.server # NoObj /\ e.transport # NoObj
  /\ e.lastAccess \in 0..now

(* an entry of the event-stream store with its server and transport *)
CompleteSse(e) ==
  /\ DOMAIN e = {"server", "transport"}
  /\ e.server # NoObj /\ e.transport # NoObj

(* the lookup found the session sid: it is refreshed and its transport is  *)
(* the one that takes the request                                          *)
FoundAndRefreshed(sid, transport) ==
  /\ Has(httpTransports, sid)
  /\ Has(httpTransports', sid)
  /\ httpTransports'[sid] = [httpTransports[sid] EXCEPT !.lastAccess = now]
  /\ transport = httpTransports[sid].transport

(* C12: every entry of either store is complete in every reachable state.  *)
(* A request for a streaming session, on arrival or when it resumes after  *)
(* its handshake, either finds the session, refreshes it and goes to its   *)
(* transport, or finds it removed, is answered 404 and changes nothing.    *)
(* A sweep removes whole entries only and keeps a session that a request   *)
(* has refreshed at the time of the sweep.                                 *)
C12_SweepOrRequest ==
  /\ [](\A id \in DOMAIN httpTransports : CompleteHttp(httpTransports[id]))
  /\ [](\A id \in DOMAIN sseTransports : CompleteSse(sseTransports[id]))
  /\ [][\A q \in Arrived :
          (q.route = "mcp" /\ NonCreating(q) /\ q.sid # NoId)
          => \/ q.pc = "handling" /\ FoundAndRefreshed(q.sid, q.transport)
             \/ /\ q.pc = "done" /\ q.status = 404
                /\ ~Has(httpTransports, q.sid)
                /\ httpTransports' = httpTransports]_vars
  /\ [][\A q \in Pending :
          (q.pc = "connecting" /\ q.made \in connected' \ connected)
          => \/ \E n \in BagToSet(reqs') :
                  /\ n.pc = "handling" /\ n.sessionId = q.sessionId
                  /\ FoundAndRefreshed(q.sessionId, n.transport)
             \/ /\ resp'.pc = "done" /\ resp'.status = 404
                /\ resp'.sessionId = q.sessionId
                /\ q.sessionId \in reaped \cup deleted
                /\ httpTransports' = httpTransports]_vars
  /\ [][nextSweep' # nextSweep
          => /\ \A id \in DOMAIN httpTransports' :
                  Has(httpTransports, id) /\ httpTransports'[id] = httpTransports[id]
             /\ \A id \in DOMAIN httpTransports :
                  httpTransports[id].lastAccess = now => Has(httpTransports', id)]_vars

(* the sweep has just run: it removed one session and kept an older one    *)
(* that a request had refreshed at that time, and that request is with     *)
(* the transport                                                           *)
C12_Witness ==
  /\ nextSweep = now + CLEANUP_INTERVAL_MS
  /\ now > SESSION_TTL_MS
  /\ reaped # {}
  /\ \E q \in Pending :
       /\ q.route = "mcp" /\ q.pc = "handling" /\ q.made = NoObj
       /\ Has(httpTransports, q.sessionId)
       /\ httpTransports[q.sessionId].lastAccess = now
       /\ \E r \in reaped : q.sessionId < r

(* ---- C13 ---- *)
(* C13: a request that carries a stored id is handed to the transport of   *)
(* that session in the step in which it arrives, so the requests of a      *)
(* session reach its transport in the order of their arrival; and while    *)
(* the request that creates a session waits for the handshake, no other    *)
(* request is with the transport of that session.                          *)
C13_ArrivalOrder ==
  /\ [][\A q \in Arrived :
          (q.route = "mcp" /\ NonCreating(q) /\ Has(httpTransports, q.sid))
          => /\ q.pc = "handling"
             /\ q.transport = httpTransports[q.sid].transport
             /\ BagToSet(reqs' (-) reqs) = {Continuation(q)}
             /\ \A n \in Pending : CopiesIn(n, reqs') >= CopiesIn(n, reqs)]_vars
  /\ [](\A q \in Pending :
          (q.route = "mcp" /\ q.pc = "connecting")
          => /\ q.sessionId \notin known
             /\ \A n \in Pending : n.sessionId = q.sessionId => n = q)
  /\ [](resp.pc = "connecting" => resp.sessionId \notin known)

(* two requests of one session are with its transport: the one that        *)
(* created it and one that arrived later with its id                       *)
C13_Witness ==
  \E q \in Pending, n \in Pending :
    /\ q.route = "mcp" /\ q.pc = "handling" /\ q.made # NoObj
    /\ n.route = "mcp" /\ n.pc = "handling" /\ n.made = NoObj
    /\ n.sessionId = q.sessionId
    /\ n.transport = q.transport

(* ---- C14 ---- *)
(* C14: every fault raised while a request is handled on /mcp, /sse or     *)
(* /messages, the failure of the handshake of a new streaming session      *)
(* included, is caught by the handler and answered 500 when no headers     *)
(* have been sent; no handler ends with the fault.                         *)
C14_FaultsCaught ==
  /\ [][\A q \in Pending :
          (ConnectReject(q) \/ HandleReject(q, FALSE))
          => (resp'.pc = "done" /\ resp'.status = 500)]_vars
  /\ [][\A c \in conns :
          SseConnectReject(c, FALSE)
          => \E n \in conns' : n.sessionId = c.sessionId /\ n.status = 500]_vars
  /\ [](resp.pc # "fault")

(* ---- C15 ---- *)
(* C15: on /mcp a request whose method is none of POST, GET and DELETE and *)
(* that is not an OPTIONS preflight is answered 405, and a GET without     *)
(* session header is answered 400; neither changes a store.                *)
C15_MethodAndHeaderErrors ==
  [][\A q \in Arrived :
       q.route = "mcp"
       => /\ q.method \notin {"POST", "GET", "DELETE", "OPTIONS"}
             => /\ q.pc = "done" /\ q.status = 405
                /\ httpTransports' = httpTransports
                /\ sseTransports' = sseTransports
          /\ (q.method = "GET" /\ q.sid = NoId)
             => /\ q.pc = "done" /\ q.status = 400
                /\ httpTransports' = httpTransports
                /\ sseTransports' = sseTransports]_vars

(* a PUT carrying the id of a stored session was answered 405 *)
C15_Witness ==
  /\ resp.route = "mcp" /\ resp.method = "PUT" /\ resp.status = 405
  /\ Has(httpTransports, resp.sid)

(* ---- C16 ---- *)
(* the objects of the stored sessions, each with the store and key it is   *)
(* stored under                                                            *)
StoredObjects ==
  {<<"http", id, httpTransports[id].server>> : id \in DOMAIN httpTransports}
  \cup {<<"http", id, httpTransports[id].transport>> : id \in DOMAIN httpTransports}
  \cup {<<"sse", id, sseTransports[id].server>> : id \in DOMAIN sseTransports}
  \cup {<<"sse", id, sseTransports[id].transport>> : id \in DOMAIN sseTransports}

(* C16: every stored session has a transport and a server of its own: no   *)
(* object is the transport or server of two sessions, of one store or of   *)
(* both, and no object is both the transport and the server of a session.  *)
C16_OwnHandlerAndRegistry ==
  /\ \A a \in StoredObjects, b \in StoredObjects :
       a[3] = b[3] => (a[1] = b[1] /\ a[2] = b[2])
  /\ \A id \in DOMAIN httpTransports :
       httpTransports[id].server # httpTransports[id].transport
  /\ \A id \in DOMAIN sseTransports :
       sseTransports[id].server # sseTransports[id].transport

(* a streaming session and an event-stream session are stored *)
C16_Witness ==
  /\ DOMAIN httpTransports # {}
  /\ DOMAIN sseTransports # {}
  /\ Cardinality(StoredObjects) = 4
(* ---- C17 ---- *)
(* the upstream call failed: it threw instead of returning a value *)
Failure(outcome) == outcome.kind # "value"

(* the steps of a tool invocation *)
ToolStep == tool' # tool

Read210 ==
  /\ tool.pc = "returned"
  /\ tool.call.version = "2.1.0"
  /\ tool.response # NoResponse
  /\ tool.outcome.kind # "network"

(* the outcomes of the three classes on which C18 and its amendment agree *)
OutcomeOfClass ==
  /\ ~Ok(tool.response) =>
       /\ tool.outcome.kind = "http"
       /\ tool.outcome.status = tool.response.status
       /\ tool.outcome.statusText = tool.response.statusText
       /\ tool.outcome.text = tool.response.text
  /\ (Ok(tool.response) /\ tool.response.text.kind = "empty") =>
       /\ tool.outcome.kind = "value"
       /\ tool.outcome.value = EmptyObject
  /\ (Ok(tool.response) /\ tool.response.text.kind = "json") =>
       /\ tool.outcome.kind = "value"
       /\ tool.outcome.value = tool.response.text.value

(* C18 as claimed: ... and a 2xx response with a non-empty body that is    *)
(* not valid JSON fails with a format error carrying the raw text.         *)
C18_Original ==
  Read210 =>
    /\ OutcomeOfClass
    /\ (Ok(tool.response) /\ tool.response.text.kind = "garbage") =>
         /\ tool.outcome.kind = "format"
         /\ tool.outcome.text = tool.response.text

(* C18: the client of v2.1.0 maps a non-2xx response to an error carrying  *)
(* the status, the status text and the body text, a 2xx response with an   *)
(* empty body to an empty object, a 2xx response with valid JSON to the    *)
(* parsed value, and a 2xx response with a non-empty body that is not      *)
(* valid JSON to a format error carrying the first 200 characters of the   *)
(* body text.                                                              *)
C18_OutcomePerClass ==
  Read210 =>
    /\ OutcomeOfClass
    /\ (Ok(tool.response) /\ tool.response.text.kind = "garbage") =>
         /\ tool.outcome.kind = "format"
         /\ tool.outcome.text = Substring(tool.response.text, FormatErrorChars)

(* a 200 response whose body of 201 characters is not JSON became a format *)
(* error that carries 200 of them                                          *)
C18_Witness ==
  /\ Read210
  /\ tool.response.status = 200
  /\ tool.response.text.kind = "garbage"
  /\ tool.response.text.len = FormatErrorChars + 1
  /\ tool.outcome.kind = "format"
  /\ tool.outcome.text.len = FormatErrorChars

(* ---- C19 ---- *)
(* a tool has called the upstream service *)
Called == tool.pc # "idle"

(* the authentication scheme of the API generation *)
SchemeOfApi ==
  /\ tool.call.api = "v2" => tool.request.authorization = "Bearer"
  /\ tool.call.api = "v0" => tool.request.authorization = "ApiAccessToken"

(* C19 as claimed: every upstream call carries the authentication header   *)
(* of its API generation, and the JSON Content-Type header exactly when it *)
(* has a request body.                                                     *)
C19_Original ==
  Called =>
    /\ SchemeOfApi
    /\ tool.request.contentType = "application/json" <=> tool.request.body # None

(* C19: every upstream call carries the authentication header of its API   *)
(* generation (Bearer for v2, ApiAccessToken for v0) and the JSON          *)
(* Content-Type header, whether it has a request body or not; the body is  *)
(* sent exactly when the caller passed one.                                *)
C19_HeadersOfEveryCall ==
  Called =>
    /\ SchemeOfApi
    /\ tool.request.contentType = "application/json"
    /\ tool.request.method = tool.call.method
    /\ tool.request.body # None <=> tool.call.hasBody

(* mem_list of v2.1.0 sent a GET without body that carries the Bearer      *)
(* header and the JSON Content-Type header                                 *)
C19_Witness ==
  /\ Called
  /\ tool.call.version = "2.1.0" /\ tool.call.name = "mem_list"
  /\ tool.request.method = "GET"
  /\ tool.request.body = None
  /\ tool.request.authorization = "Bearer"
  /\ tool.request.contentType = "application/json"

(* ---- C20 ---- *)
(* C20: a tool invocation calls fetch once: from its start to its return   *)
(* the count of its upstream requests is one, whether the call fails or    *)
(* not, and only the start of an invocation sets the count. A mem_list     *)
(* response with next_page ends the handler with the hint in its result.   *)
C20_OneRequestPerInvocation ==
  /\ [](Called => tool.fetches = 1)
  /\ [][tool'.fetches # tool.fetches
          => /\ tool.pc \in {"idle", "returned"}
             /\ tool'.pc = "fetch"
             /\ tool'.fetches = 1]_vars
  /\ [][(tool.pc = "fetch" /\ FetchReject)
          => tool'.pc = "returned" /\ tool'.result.isError]_vars
  /\ []((Called /\ tool.result.hint)
          => /\ tool.pc = "returned"
             /\ tool.call.name = "mem_list"
             /\ tool.outcome.value.next_page)

(* mem_list returned a list with the hint of the next page after one       *)
(* upstream request                                                        *)
C20_Witness ==
  /\ tool.pc = "returned"
  /\ tool.call.name = "mem_list"
  /\ tool.outcome.kind = "value" /\ tool.outcome.value.next_page
  /\ tool.result.view = "list" /\ tool.result.hint
  /\ tool.fetches = 1

(* ---- C21 ---- *)
(* a list tool has returned the text of the object it got *)
ListReturned == handler.pc = "returned" /\ handler.name \in ListTools

(* the list the tool got: empty if the object has no results field *)
ItemsGot ==
  IF handler.value.results.present THEN handler.value.results.items ELSE <<>>

(* the field of an item that its block shows under the title *)
ItemText(item) ==
  IF "content" \in DOMAIN item THEN item.content ELSE item.description

(* one block for each item, in the order of the list *)
BlockPerItem ==
  /\ Len(handler.text.blocks) = Len(ItemsGot)
  /\ \A i \in 1..Len(ItemsGot) :
       /\ Truthy(ItemsGot[i].title)
            => handler.text.blocks[i].title = Printed(ItemsGot[i].title)
       /\ handler.text.blocks[i].content.present = Truthy(ItemText(ItemsGot[i]))

(* an empty or missing list gives the fixed sentence only *)
NoResultsOnly ==
  Len(ItemsGot) = 0 =>
    /\ handler.text.sentence = NoResultsSentence(handler.name)
    /\ handler.name = "mem_search" =>
         /\ handler.text.sentence = "No notes found matching \"<query>\""
         /\ handler.text.query = Printed(handler.args.query)
    /\ handler.text.blocks = <<>>
    /\ ~handler.text.isError

(* C21 as claimed: a list of N > 0 items renders a header containing N and *)
(* N item blocks in the order received; an empty or missing list renders   *)
(* the no-results sentence only.                                           *)
C21_Original ==
  ListReturned =>
    /\ NoResultsOnly
    /\ Len(ItemsGot) > 0 =>
         /\ handler.text.sentence = FoundSentence(handler.name)
         /\ handler.text.total = Printed(Num(Len(ItemsGot)))
         /\ BlockPerItem

(* C21: a list tool that gets a list of N > 0 items renders a header that  *)
(* contains the total field of the upstream object as it came (which need  *)
(* not be N) and N item blocks in the order received, without failure      *)
(* flag; an empty or missing list renders the no-results sentence only,    *)
(* for mem_search with the query in it.                                    *)
C21_HeaderAndBlocks ==
  ListReturned =>
    /\ NoResultsOnly
    /\ Len(ItemsGot) > 0 =>
         /\ handler.text.sentence = FoundSentence(handler.name)
         /\ handler.text.total = Printed(handler.value.total)
         /\ BlockPerItem
         /\ ~handler.text.isError

(* mem_search got two different notes of a total of three: the header says *)
(* three, the two blocks follow in order                                   *)
C21_Witness ==
  /\ ListReturned
  /\ handler.name = "mem_search"
  /\ Len(ItemsGot) = 2
  /\ ItemsGot[1].title = Str(1) /\ ItemsGot[2].title = Str(0)
  /\ handler.value.total = Num(MaxItems + 1)
  /\ handler.text.total = Printed(Num(MaxItems + 1))
  /\ handler.text.blocks[1].title = Printed(Str(1))
  /\ handler.text.blocks[2].title = Untitled

(* ---- C22 ---- *)
(* the block shows the content cut at the limit: unmodified and unmarked   *)
(* up to limit characters, the first limit characters and the ellipsis     *)
(* beyond                                                                  *)
CutAt(block, content, limit) ==
  /\ block.content.present
  /\ content.size <= limit
       => block.content.shown = Printed(content) /\ ~block.content.ellipsis
  /\ content.size > limit
       => block.content.shown = Printed(Str(limit)) /\ block.content.ellipsis

(* the lists of mem_search cut at 500 and those of mem_list at 300 *)
ListsCut ==
  /\ (handler.pc = "returned" /\ handler.name = "mem_search") =>
       \A i \in 1..Len(ItemsGot) :
         Truthy(ItemsGot[i].content)
           => CutAt(handler.text.blocks[i], ItemsGot[i].content, 500)
  /\ (handler.pc = "returned" /\ handler.name = "mem_list") =>
       \A i \in 1..Len(ItemsGot) :
         Truthy(ItemsGot[i].content)
           => CutAt(handler.text.blocks[i], ItemsGot[i].content, 300)

(* C22 as claimed: content is cut at 500 characters by mem_read and        *)
(* mem_search and at 300 by mem_list.                                      *)
C22_Original ==
  /\ ListsCut
  /\ (handler.pc = "returned" /\ handler.name = "mem_read"
        /\ Truthy(handler.value.content))
       => CutAt(handler.text.blocks[1], handler.value.content, 500)

(* C22: mem_search cuts the content of a note at 500 characters and        *)
(* mem_list at 300: content of at most that length is rendered unmodified  *)
(* without ellipsis, longer content as its first 500 (300) characters      *)
(* followed by the ellipsis. mem_read renders the whole content of the     *)
(* note without ellipsis, whatever its length.                             *)
C22_TruncationLimits ==
  /\ ListsCut
  /\ (handler.pc = "returned" /\ handler.name = "mem_read") =>
       /\ handler.text.blocks[1].content.shown = Printed(handler.value.content)
       /\ ~handler.text.blocks[1].content.ellipsis

(* mem_list rendered a note of 300 characters whole and a note of 301      *)
(* characters as 300 characters and the ellipsis                           *)
C22_Witness ==
  /\ handler.pc = "returned" /\ handler.name = "mem_list"
  /\ Len(ItemsGot) = 2
  /\ ItemsGot[1].content = Str(300) /\ ItemsGot[2].content = Str(301)
  /\ handler.text.blocks[1].content = Shown(TRUE, Printed(Str(300)), FALSE)
  /\ handler.text.blocks[2].content = Shown(TRUE, Printed(Str(300)), TRUE)

(* ---- C23 ---- *)
(* C23: in the text of every tool an item whose title is missing           *)
(* (undefined, null or empty) is rendered with the title Untitled: notes   *)
(* in mem_search, mem_list and mem_read, collections in                    *)
(* mem_collections_list and mem_collections_search.                        *)
C23_MissingTitleUntitled ==
  /\ ListReturned =>
       \A i \in 1..Len(ItemsGot) :
         ~Truthy(ItemsGot[i].title) => handler.text.blocks[i].title = Untitled
  /\ (handler.pc = "returned" /\ handler.name = "mem_read"
        /\ ~Truthy(handler.value.title))
       => handler.text.blocks[1].title = Untitled

(* ---- C24 ---- *)
(* the caller set the argument to a non-empty value *)
NonEmpty(v) ==
  \/ v.kind \in {"string", "array"} /\ v.size > 0
  \/ v = Bool(TRUE)

(* the handler of a tool with optional body fields has built its body *)
BodyBuilt ==
  /\ handler.pc \in {"awaiting", "returned"}
  /\ handler.name \in {"mem_search", "mem_create", "mem_it"}

(* C24: the body that mem_search, mem_create and mem_it send has an        *)
(* optional field exactly when the caller set it to a non-empty value: an  *)
(* argument that is unset, null, an empty string, an empty array or false  *)
(* is not in the body, and no field of the body is null or an empty array. *)
C24_OptionalFieldsOmitted ==
  BodyBuilt =>
    /\ \A f \in OptionalFields(handler.name) :
         f \in DOMAIN handler.body <=> NonEmpty(handler.args[f])
    /\ \A f \in DOMAIN handler.body :
         /\ handler.body[f].kind \notin {"null", "undefined"}
         /\ handler.body[f] # Arr(0)
         /\ handler.body[f] = handler.args[f]

(* mem_create was called with a title list of one, an empty id list, an    *)
(* empty id and a null date: the body has the content and the titles only  *)
C24_Witness ==
  /\ BodyBuilt
  /\ handler.name = "mem_create"
  /\ handler.args.collection_titles = Arr(1)
  /\ handler.args.collection_ids = Arr(0)
  /\ handler.args.id = Str(0)
  /\ handler.args.created_at = Null
  /\ handler.args.updated_at = Undefined
  /\ DOMAIN handler.body = {"content", "collection_titles"}

(* ---- C25 ---- *)
(* a POST on /mcp without session header whose body is not initialize *)
PlainNoHeader(q) == q.route = "mcp" /\ q.method = "POST" /\ q.sid = NoId /\ ~q.init

(* the request created its session the way an initialize POST does: a new  *)
(* entry under an id that was never a key, the others kept, and the        *)
(* handler awaiting the handshake without having answered                  *)
CreatedFresh(q) ==
  /\ q.sessionId # NoId
  /\ ~Has(httpTransports, q.sessionId)
  /\ q.sessionId \notin known \cup deleted \cup reaped
  /\ DOMAIN httpTransports' = (DOMAIN httpTransports) \cup {q.sessionId}
  /\ httpTransports'[q.sessionId].transport = q.made
  /\ OthersKept(q.sessionId)
  /\ q.pc = "connecting" /\ q.made # NoObj /\ q.status = 0

(* C25 as claimed: a POST without session header whose body is not         *)
(* initialize creates a session as an initialize POST does and is handed   *)
(* to the transport of the new session; it is not answered 400 or 404.     *)
C25_Original ==
  /\ [][\A q \in Arrived : PlainNoHeader(q) => CreatedFresh(q)]_vars
  /\ [](\A q \in Pending :
          (q.made # NoObj /\ q.pc = "handling") => q.transport = q.made)
  /\ [](resp.made # NoObj => resp.status \notin {400, 404})

(* C25: a POST without session header whose body is not initialize creates *)
(* a session under a fresh id as an initialize POST does, and when the     *)
(* handshake of the new session resolves it is handed to the transport of  *)
(* that session. It is never answered 400, and it is answered 404 only     *)
(* when the cleanup timer has removed the new session during the           *)
(* handshake.                                                              *)
C25_NoHeaderCreates ==
  /\ [][\A q \in Arrived : PlainNoHeader(q) => CreatedFresh(q)]_vars
  /\ [](\A q \in Pending :
          (q.made # NoObj /\ q.pc = "handling") => q.transport = q.made)
  /\ [][\A q \in Pending :
          (q.made # NoObj /\ ConnectResolve(q) /\ Has(httpTransports, q.sessionId))
          => /\ resp' = NoResp
             /\ \E h \in BagToSet(reqs') :
                  /\ h.pc = "handling" /\ h.sessionId = q.sessionId
                  /\ h.transport = httpTransports[q.sessionId].transport
                  /\ h.transport = q.made]_vars
  /\ [](resp.made # NoObj => resp.status # 400)
  /\ []((resp.made # NoObj /\ resp.status = 404) => resp.sessionId \in reaped)

(* the POST without header and without initialize body has stored a new    *)
(* session next to an older one and awaits the handshake                   *)
C25_Witness ==
  /\ PlainNoHeader(resp) /\ resp.pc = "connecting"
  /\ Has(httpTransports, resp.sessionId)
  /\ httpTransports[resp.sessionId].transport = resp.made
  /\ Cardinality(DOMAIN httpTransports) = 2

(* ---- C26 ---- *)
(* an initialize POST on /mcp that carries the id of a stored session *)
InitStored(q) ==
  q.route = "mcp" /\ q.method = "POST" /\ q.init /\ Has(httpTransports, q.sid)

Keys == (DOMAIN httpTransports) \cup (DOMAIN sseTransports)

(* the ids randomUUID() has returned *)
Minted == 1..uuids

(* C27: every key of the streaming store and of the event-stream store is  *)
(* an id the server minted. A key that enters a store is the id minted in  *)
(* that step: it is no id a client could have sent before, and an id a     *)
(* client made up is never a key.                                          *)
C27_KeysAreMinted ==
  /\ [](Keys \subseteq Minted /\ Keys \cap (Forged \cup {NoId}) = {})
  /\ [][\A i \in (DOMAIN httpTransports' \cup DOMAIN sseTransports') \ Keys :
          /\ uuids' = uuids + 1 /\ i = uuids'
          /\ i \notin Minted \cup ClientIds]_vars

(* an initialize POST carrying a made-up id has stored its session under   *)
(* a minted id, next to a session of the event-stream store                *)
C27_Witness ==
  /\ resp.route = "mcp" /\ resp.init /\ resp.sid \in Forged
  /\ resp.pc = "connecting"
  /\ Has(httpTransports, resp.sessionId) /\ resp.sessionId \in Minted
  /\ ~Has(httpTransports, resp.sid)
  /\ DOMAIN sseTransports # {}

(* ---- C28 ---- *)
(* a request is handed to the handler of session id in this step: the      *)
(* session is touched                                                      *)
Received(id) ==
  \E h \in BagToSet(reqs') :
    /\ h.pc = "handling" /\ h.sessionId = id
    /\ CopiesIn(h, reqs') > CopiesIn(h, reqs)

(* C28: with the cleanup timer running whenever it is due and the clock    *)
(* advancing, every streaming session that from some point on receives no  *)
(* POST and no GET is eventually removed from the streaming store for      *)
(* good, whatever else the server handles.                                 *)
C28_AbandonedEvicted ==
  \A id \in 1..MaxSessions :
    ([]<><<Received(id)>>_vars) \/ (<>[]~Has(httpTransports, id))

(* a session that is stale and was never deleted: the next sweep is its    *)
(* only way out of the store                                               *)
C28_Witness ==
  \E id \in DOMAIN httpTransports :
    /\ Stale(now, httpTransports[id])
    /\ now >= nextSweep
    /\ \E q \in Pending : q.sessionId = id /\ q.pc = "handling"

(* ---- C29 ---- *)
(* a request of a streaming session that is in flight: it awaits the       *)
(* handshake of its new session or the handler it was handed to            *)
InFlight(q) == q.route = "mcp" /\ q.pc \in {"connecting", "handling"}

(* the sessions of the streaming store that have a request in flight *)
Busy == {q.sessionId : q \in {p \in Pending : InFlight(p)}} \cap DOMAIN httpTransports

(* C29 as claimed: the cleanup timer never removes a streaming session     *)
(* while a request of that session is in flight: such a session is in the  *)
(* store after every tick.                                                 *)
C29_Original ==
  [][nextSweep' # nextSweep => \A id \in Busy : Has(httpTransports', id)]_vars

(* C29 as amended: the cleanup timer decides by last_access alone. A       *)
(* streaming session with a request in flight is in the store after a tick *)
(* exactly when its last access is at most 30 minutes before the tick, and *)
(* then its entry is unchanged; a request in flight does not keep a        *)
(* session that was last accessed earlier. The tick leaves the requests in *)
(* flight as they are.                                                     *)
C29_InFlightKeptWhileFresh ==
  [][nextSweep' # nextSweep =>
       /\ \A id \in Busy :
            IF now - httpTransports[id].lastAccess <= 30 * 60 * 1000
            THEN Has(httpTransports', id) /\ httpTransports'[id] = httpTransports[id]
            ELSE ~Has(httpTransports', id) /\ id \in reaped'
       /\ reqs' = reqs /\ resp' = resp]_vars

(* the timer has just run with two requests in flight: the session of the  *)
(* one, last accessed more than 30 minutes ago, is removed, the session of *)
(* the other one is kept                                                   *)
C29_Witness ==
  /\ nextSweep = now + CLEANUP_INTERVAL_MS
  /\ \E q \in Pending : InFlight(q) /\ q.pc = "handling" /\ q.sessionId \in reaped
  /\ \E q \in Pending : InFlight(q) /\ Has(httpTransports, q.sessionId)

====
